---- MODULE Spec2Model ----
(***************************************************************************)
(* atomiclock_spinlock: Lock<T> / Guard<'a, T> (src/src/lib.rs).           *)
(*                                                                         *)
(* One Lock shared by NumThreads threads.  Every thread is either outside  *)
(* a call ("idle"), inside the retry loop of spin_lock / spin_lock_warn,   *)
(* at the deadline check or the acquisition attempt of spin_lock_until,    *)
(* or in the middle of a (non-atomic) write through its Guard.  try_lock   *)
(* is one attempt.  The atomic flag and the Guard's release belong to the  *)
(* atomiclock crate that Lock wraps; they are modelled as one indivisible  *)
(* compare-and-swap and one store (memory is sequentially consistent).     *)
(* into_inner consumes the Lock once no call is in flight and no Guard is  *)
(* live.  Spec is the full system; FairSpec and SpinFairSpec add the       *)
(* fairness of the running loops; StarveSpec is the contention among       *)
(* spin_lock callers alone, with one thread more.                          *)
(***************************************************************************)
EXTENDS Integers, FiniteSets

\* ---------------------------------------------------------------- bounds
NumThreads == 2
MaxVal     == 1
MaxClock   == 2
MaxFails   == 2

Threads == 1..NumThreads
Values  == 0..MaxVal
Torn    == MaxVal + 1  \* T while a plain (non-atomic) write is in progress
NoObs   == MaxVal + 2  \* the Guard has not been read since it was acquired
Dirty   == MaxVal + 3  \* the holder has written through the Guard
NoInner == MaxVal + 4  \* into_inner has not been called

VARIABLES
    flag,      \* AtomicLock's state cell: "Free" or "Held"
    data,      \* the protected value T
    new_data,  \* the value Lock::new was given
    inner,     \* what into_inner returned (NoInner while the Lock exists)
    left,      \* the value of T at the most recent Guard drop (new_data if none)
    clock,     \* std::time::Instant::now()
    pc,        \* pc[t]: where thread t is
    op,        \* op[t]: the acquisition method t called last
    ret,       \* ret[t]: what that call returned: "Some" (a Guard), "None", "-" (not yet)
    guards,    \* guards[t]: number of live Guards thread t owns
    fails,     \* fails[t]: failed acquisition attempts of t's current/last call
    touched,   \* touched[t]: t's current/last call changed the flag
    deadline,  \* deadline[t]: argument of spin_lock_until
    start,     \* start[t]: clock when spin_lock_until was called
    late,      \* late[t]: attempts of t's spin_lock_until made with the clock past the deadline
    opened,    \* opened[t]: PerfwarnIntervals begun by t's current/last spin_lock_warn
    closed,    \* closed[t]: PerfwarnIntervals dropped by it
    obs        \* obs[t]: what t read first through its Guard

vars == <<flag, data, new_data, inner, left, clock, pc, op, ret, guards, fails,
          touched, deadline, start, late, opened, closed, obs>>

lockv  == <<flag, data, left>>
callv  == <<op, ret, fails, touched>>
timev  == <<deadline, start, late>>
ownv   == <<new_data, inner>>
warnv  == <<opened, closed>>

RECURSIVE SumUpTo(_, _)
SumUpTo(f, n) == IF n = 0 THEN 0 ELSE f[n] + SumUpTo(f, n - 1)
\* number of live Guards of the Lock
LiveGuards == SumUpTo(guards, NumThreads)
Holders    == {t \in Threads : guards[t] > 0}

\* ------------------------------------------------- atomiclock primitive
\* AtomicLock::lock(): one compare-and-swap Free -> Held; a token iff it was Free.
lock(f) == IF f = "Free" THEN [token |-> TRUE,  flag |-> "Held"]
                         ELSE [token |-> FALSE, flag |-> f]

\* atomiclock::Guard's drop: store Free.
release(f) == "Free"

\* ---------------------------------------------------------------- Init
\* Lock::new(data)
Init ==
    /\ flag = "Free"
    /\ data \in Values
    /\ new_data = data
    /\ inner = NoInner
    /\ left = data
    /\ clock = 0
    /\ pc = [t \in Threads |-> "idle"]
    /\ op = [t \in Threads |-> "-"]
    /\ ret = [t \in Threads |-> "-"]
    /\ guards = [t \in Threads |-> 0]
    /\ fails = [t \in Threads |-> 0]
    /\ touched = [t \in Threads |-> FALSE]
    /\ deadline = [t \in Threads |-> 0]
    /\ start = [t \in Threads |-> 0]
    /\ late = [t \in Threads |-> 0]
    /\ opened = [t \in Threads |-> 0]
    /\ closed = [t \in Threads |-> 0]
    /\ obs = [t \in Threads |-> NoObs]

\* ------------------------------------------------------------- helpers
Min(a, b) == IF a < b THEN a ELSE b

\* a call of method m begins at position p: per-call bookkeeping is reset
Enter(t, m, p, d) ==
    /\ inner = NoInner
    /\ pc[t] = "idle"
    /\ pc' = [pc EXCEPT ![t] = p]
    /\ op' = [op EXCEPT ![t] = m]
    /\ ret' = [ret EXCEPT ![t] = "-"]
    /\ fails' = [fails EXCEPT ![t] = 0]
    /\ touched' = [touched EXCEPT ![t] = FALSE]
    /\ opened' = [opened EXCEPT ![t] = 0]
    /\ closed' = [closed EXCEPT ![t] = 0]
    /\ deadline' = [deadline EXCEPT ![t] = d]
    /\ start' = [start EXCEPT ![t] = IF m = "spin_lock_until" THEN clock ELSE 0]
    /\ late' = [late EXCEPT ![t] = 0]
    /\ UNCHANGED <<lockv, ownv, clock, guards, obs>>

\* the call returns r; Some(Guard(guard)) hands the caller a live Guard
Return(t, r) ==
    /\ pc' = [pc EXCEPT ![t] = "idle"]
    /\ ret' = [ret EXCEPT ![t] = r]
    /\ guards' = [guards EXCEPT ![t] = IF r = "Some" THEN @ + 1 ELSE @]

\* self.lock.lock(): the attempt's effect on the flag, and its bookkeeping
Attempt(t, r) ==
    /\ flag' = r.flag
    /\ touched' = [touched EXCEPT ![t] = @ \/ (r.flag # flag)]

\* ------------------------------------------------------------ spin_lock
call_spin_lock(t) == Enter(t, "spin_lock", "spin_lock", 0)

spin_lock_arm_grant(token) == "Some"

\* the lock is handed out in waiting order: an attempt succeeds only if no
\* other thread inside spin_lock has failed more often
spin_lock_in_turn(t) ==
    /\ pc[t] = "spin_lock"
    /\ LET waited == \E u \in DOMAIN pc : u # t /\ pc[u] = "spin_lock" /\ fails[u] > fails[t]
           r == IF waited THEN [token |-> FALSE, flag |-> flag] ELSE lock(flag) IN
        /\ Attempt(t, r)
        /\ IF r.token
           THEN /\ Return(t, "Some")
                /\ UNCHANGED fails
           ELSE /\ fails' = [fails EXCEPT ![t] = Min(@ + 1, MaxFails)]
                /\ UNCHANGED <<pc, ret, guards>>
    /\ UNCHANGED <<data, ownv, left, clock, op, timev, warnv, obs>>

\* a failed attempt ends the call instead of being retried
spin_lock_once(t) ==
    /\ pc[t] = "spin_lock"
    /\ LET r == lock(flag) IN
        /\ Attempt(t, r)
        /\ Return(t, IF r.token THEN "Some" ELSE "None")
    /\ UNCHANGED <<data, ownv, left, clock, op, fails, timev, warnv, obs>>

\* the loop gives up once MaxFails attempts have failed
spin_lock_gives_up(t) ==
    /\ pc[t] = "spin_lock"
    /\ LET r == lock(flag) IN
        /\ Attempt(t, r)
        /\ IF r.token
           THEN /\ Return(t, "Some")
                /\ UNCHANGED fails
           ELSE IF fails[t] < MaxFails
           THEN /\ fails' = [fails EXCEPT ![t] = @ + 1]
                /\ UNCHANGED <<pc, ret, guards>>
           ELSE /\ Return(t, "None")
                /\ UNCHANGED fails
    /\ UNCHANGED <<data, ownv, left, clock, op, timev, warnv, obs>>

\* match self.lock.lock() { None => {} Some(guard) => {return Guard(guard)} }
spin_lock_arm(token) == IF token THEN "Some" ELSE "loop"

spin_lock(t) ==
    /\ pc[t] = "spin_lock"
    /\ LET r == lock(flag) IN
        /\ Attempt(t, r)
        /\ IF spin_lock_arm(r.token) = "Some"
           THEN /\ Return(t, "Some")
                /\ UNCHANGED fails
           ELSE /\ fails' = [fails EXCEPT ![t] = Min(@ + 1, MaxFails)]
                /\ UNCHANGED <<pc, ret, guards>>
    /\ UNCHANGED <<data, ownv, left, clock, op, timev, warnv, obs>>

\* ------------------------------------------------------- spin_lock_warn
call_spin_lock_warn(t) == Enter(t, "spin_lock_warn", "spin_lock_warn", 0)

\* _warn holds Some(PerfwarnInterval): an interval is open
warn_is_some(t) == opened[t] > closed[t]

\* None => { _warn = Some(logwise::perfwarn_begin!(..)); }
\* begins an interval on this failed attempt, then drops the value _warn held
warn_none_arm(t) ==
    /\ opened' = [opened EXCEPT ![t] = @ + 1]
    /\ closed' = [closed EXCEPT ![t] = IF warn_is_some(t) THEN @ + 1 ELSE @]

\* the success path begins an interval of its own
warn_some_arm_begins(t) ==
    /\ opened' = [opened EXCEPT ![t] = @ + 1]
    /\ closed' = [closed EXCEPT ![t] = IF warn_is_some(t) THEN @ + 1 ELSE @]

\* the success path returns with the interval _warn holds still open
warn_some_arm_leaks(t) == UNCHANGED <<opened, closed>>

\* Some(guard) => { _warn = None; return Guard(guard); }
warn_some_arm(t) ==
    /\ closed' = [closed EXCEPT ![t] = IF warn_is_some(t) THEN @ + 1 ELSE @]
    /\ UNCHANGED opened

spin_lock_warn_arm_grant(token) == "Some"

\* match self.lock.lock() { None => {..} Some(guard) => {..} }
spin_lock_warn_arm(token) == IF token THEN "Some" ELSE "loop"

spin_lock_warn(t) ==
    /\ pc[t] = "spin_lock_warn"
    /\ LET r == lock(flag) IN
        /\ Attempt(t, r)
        /\ IF spin_lock_warn_arm(r.token) = "Some"
           THEN /\ warn_some_arm(t)
                /\ Return(t, "Some")
                /\ UNCHANGED fails
           ELSE /\ fails[t] < MaxFails
                /\ warn_none_arm(t)
                /\ fails' = [fails EXCEPT ![t] = @ + 1]
                /\ UNCHANGED <<pc, ret, guards>>
    /\ UNCHANGED <<data, ownv, left, clock, op, timev, obs>>

\* ------------------------------------------------------ spin_lock_until
\* the caller passes any Instant as deadline
call_spin_lock_until(t) ==
    \E d \in 0..(MaxClock - 1) : Enter(t, "spin_lock_until", "until_check", d)

deadline_passed_at(n, d) == n >= d

deadline_passed_late(n, d) == n > d + 1

\* std::time::Instant::now() > deadline
deadline_passed(n, d) == n > d

\* on the timeout path the flag is stored Free before returning
until_check_unlocks(t) ==
    /\ pc[t] = "until_check"
    /\ IF deadline_passed(clock, deadline[t])
       THEN /\ Return(t, "None")
            /\ flag' = "Free"
       ELSE /\ pc' = [pc EXCEPT ![t] = "until_lock"]
            /\ UNCHANGED <<ret, guards, flag>>
    /\ UNCHANGED <<data, left, ownv, clock, op, fails, touched, timev, warnv, obs>>

\* if std::time::Instant::now() > deadline { return None; }
until_check(t) ==
    /\ pc[t] = "until_check"
    /\ IF deadline_passed(clock, deadline[t])
       THEN /\ Return(t, "None")
       ELSE /\ pc' = [pc EXCEPT ![t] = "until_lock"]
            /\ UNCHANGED <<ret, guards>>
    /\ UNCHANGED <<lockv, ownv, clock, op, fails, touched, timev, warnv, obs>>

until_arm_grant(token) == "Some"

\* match self.lock.lock() { None => {} Some(guard) => {return Some(Guard(guard))} }
until_arm(token) == IF token THEN "Some" ELSE "loop"

\* a failed attempt is retried at once, without a new deadline check
until_lock_respins(t) ==
    /\ pc[t] = "until_lock"
    /\ LET r == lock(flag) IN
        /\ Attempt(t, r)
        /\ late' = [late EXCEPT ![t] = IF clock > deadline[t] THEN Min(@ + 1, MaxFails) ELSE @]
        /\ IF until_arm(r.token) = "Some"
           THEN /\ Return(t, "Some")
                /\ UNCHANGED fails
           ELSE /\ fails' = [fails EXCEPT ![t] = Min(@ + 1, MaxFails)]
                /\ UNCHANGED <<pc, ret, guards>>
    /\ UNCHANGED <<data, ownv, left, clock, op, deadline, start, warnv, obs>>

until_lock(t) ==
    /\ pc[t] = "until_lock"
    /\ LET r == lock(flag) IN
        /\ Attempt(t, r)
        /\ late' = [late EXCEPT ![t] = IF clock > deadline[t] THEN Min(@ + 1, MaxFails) ELSE @]
        /\ IF until_arm(r.token) = "Some"
           THEN /\ Return(t, "Some")
                /\ UNCHANGED fails
           ELSE /\ fails' = [fails EXCEPT ![t] = Min(@ + 1, MaxFails)]
                /\ pc' = [pc EXCEPT ![t] = "until_check"]
                /\ UNCHANGED <<ret, guards>>
    /\ UNCHANGED <<data, ownv, left, clock, op, deadline, start, warnv, obs>>

\* the monotonic clock advances
Tick ==
    /\ clock < MaxClock
    /\ clock' = clock + 1
    /\ UNCHANGED <<lockv, ownv, pc, guards, callv, timev, warnv, obs>>

\* ------------------------------------------------------------- try_lock
call_try_lock(t) == Enter(t, "try_lock", "try_lock", 0)

try_lock_arm_grant(token) == "Some"

\* the token is taken and forgotten: the caller is told None
try_lock_arm_none(token) == "None"

\* match self.lock.lock() { None => None, Some(guard) => Some(Guard(guard)) }
try_lock_arm(token) == IF token THEN "Some" ELSE "None"

\* a failed attempt is retried instead of returned
try_lock_retries(t) ==
    /\ pc[t] = "try_lock"
    /\ LET r == lock(flag) IN
        /\ Attempt(t, r)
        /\ IF r.token
           THEN /\ Return(t, "Some")
                /\ UNCHANGED fails
           ELSE /\ fails' = [fails EXCEPT ![t] = Min(@ + 1, MaxFails)]
                /\ UNCHANGED <<pc, ret, guards>>
    /\ UNCHANGED <<data, ownv, left, clock, op, timev, warnv, obs>>

try_lock(t) ==
    /\ pc[t] = "try_lock"
    /\ LET r == lock(flag) IN
        /\ Attempt(t, r)
        /\ fails' = [fails EXCEPT ![t] = IF r.token THEN 0 ELSE 1]
        /\ Return(t, try_lock_arm(r.token))
    /\ UNCHANGED <<data, ownv, left, clock, op, timev, warnv, obs>>

\* ---------------------------------------------------------------- Guard
\* Deref / AsRef: the holder reads T (the first read after acquiring is recorded)
deref(t) ==
    /\ pc[t] = "idle"
    /\ guards[t] > 0
    /\ obs[t] = NoObs
    /\ obs' = [obs EXCEPT ![t] = data]
    /\ UNCHANGED <<lockv, ownv, clock, pc, guards, callv, timev, warnv>>

\* get_mut / DerefMut / AsMut: the holder starts a plain write of T ...
deref_mut(t) ==
    /\ pc[t] = "idle"
    /\ guards[t] > 0
    /\ pc' = [pc EXCEPT ![t] = "writing"]
    /\ data' = Torn
    /\ obs' = [obs EXCEPT ![t] = Dirty]
    /\ UNCHANGED <<flag, left, ownv, clock, guards, callv, timev, warnv>>

\* ... and completes it
write_done(t) ==
    /\ pc[t] = "writing"
    /\ \E v \in Values : data' = v
    /\ pc' = [pc EXCEPT ![t] = "idle"]
    /\ UNCHANGED <<flag, left, ownv, clock, guards, callv, timev, warnv, obs>>

\* the Guard is discarded without dropping the atomiclock::Guard it wraps
drop_forgets(t) ==
    /\ pc[t] = "idle"
    /\ guards[t] > 0
    /\ guards' = [guards EXCEPT ![t] = @ - 1]
    /\ left' = data
    /\ obs' = [obs EXCEPT ![t] = NoObs]
    /\ UNCHANGED <<flag, data, ownv, clock, pc, callv, timev, warnv>>

\* the Guard goes out of scope: its atomiclock::Guard releases the flag
drop(t) ==
    /\ pc[t] = "idle"
    /\ guards[t] > 0
    /\ guards' = [guards EXCEPT ![t] = @ - 1]
    /\ flag' = release(flag)
    /\ left' = data
    /\ obs' = [obs EXCEPT ![t] = NoObs]
    /\ UNCHANGED <<data, ownv, clock, pc, callv, timev, warnv>>

\* ----------------------------------------------------------- into_inner
\* the Default for T is returned instead of the contained value
into_inner_default ==
    /\ inner = NoInner
    /\ \A t \in Threads : pc[t] = "idle" /\ guards[t] = 0
    /\ inner' = 0
    /\ UNCHANGED <<lockv, new_data, clock, pc, guards, callv, timev, warnv, obs>>

\* into_inner(self): the owner consumes the Lock; self by value means no
\* borrow is left: no call is in flight and no Guard is live
into_inner ==
    /\ inner = NoInner
    /\ \A t \in Threads : pc[t] = "idle" /\ guards[t] = 0
    /\ inner' = data
    /\ UNCHANGED <<lockv, new_data, clock, pc, guards, callv, timev, warnv, obs>>

\* ----------------------------------------------------------------- Next
ThreadNext(t) ==
    \/ call_spin_lock(t)
    \/ spin_lock(t)
    \/ call_spin_lock_warn(t)
    \/ spin_lock_warn(t)
    \/ call_spin_lock_until(t)
    \/ until_check(t)
    \/ until_lock(t)
    \/ call_try_lock(t)
    \/ try_lock(t)
    \/ deref(t)
    \/ deref_mut(t)
    \/ write_done(t)
    \/ drop(t)

Next == Tick \/ into_inner \/ \E t \in Threads : ThreadNext(t)

Spec == Init /\ [][Next]_vars

\* every thread keeps running its code; the clock keeps advancing
FairSpec ==
    /\ Spec
    /\ WF_vars(Tick)
    /\ \A t \in Threads : WF_vars(until_check(t)) /\ WF_vars(until_lock(t))

\* every thread inside spin_lock / spin_lock_warn keeps running its loop
SpinFairSpec ==
    /\ Spec
    /\ \A t \in Threads : WF_vars(spin_lock(t)) /\ WF_vars(spin_lock_warn(t))

\* contention among spin_lock callers only, with one thread more than Spec has:
\* a waiting thread, a holder and a newcomer
StarveThreads == 1..(NumThreads + 1)

StarveInit ==
    /\ flag = "Free"
    /\ data \in Values
    /\ new_data = data
    /\ inner = NoInner
    /\ left = data
    /\ clock = 0
    /\ pc = [t \in StarveThreads |-> "idle"]
    /\ op = [t \in StarveThreads |-> "-"]
    /\ ret = [t \in StarveThreads |-> "-"]
    /\ guards = [t \in StarveThreads |-> 0]
    /\ fails = [t \in StarveThreads |-> 0]
    /\ touched = [t \in StarveThreads |-> FALSE]
    /\ deadline = [t \in StarveThreads |-> 0]
    /\ start = [t \in StarveThreads |-> 0]
    /\ late = [t \in StarveThreads |-> 0]
    /\ opened = [t \in StarveThreads |-> 0]
    /\ closed = [t \in StarveThreads |-> 0]
    /\ obs = [t \in StarveThreads |-> NoObs]

StarveNext ==
    \E t \in StarveThreads :
        \/ call_spin_lock(t)
        \/ spin_lock(t)
        \/ drop(t)

StarveSpec == StarveInit /\ [][StarveNext]_vars

\* ------------------------------------------------------------- claims
InUntil(t) == pc[t] \in {"until_check", "until_lock"}
InSpin(t)  == pc[t] \in {"spin_lock", "spin_lock_warn"}

\* C1: mutual exclusion: at most one live Guard exists for the Lock, whatever
\* mix of spin_lock, spin_lock_warn, spin_lock_until and try_lock acquired it.
MutualExclusion == LiveGuards <= 1

\* one thread holds the Guard while another has already failed an attempt
MutualExclusionWitness ==
    \E t, u \in Threads :
        /\ t # u
        /\ guards[t] = 1
        /\ pc[u] # "idle"
        /\ fails[u] >= 1

\* C2: a live Guard implies the flag is Held, and the flag is Free or Held.
GuardImpliesHeld ==
    /\ flag \in {"Free", "Held"}
    /\ (LiveGuards > 0 => flag = "Held")

\* a Guard obtained from spin_lock_until is live
GuardImpliesHeldWitness ==
    \E t \in Threads :
        guards[t] = 1 /\ op[t] = "spin_lock_until" /\ ret[t] = "Some" /\ flag = "Held"

\* C3: the flag goes Held -> Free exactly at a Guard's drop, once per drop, and
\* a try_lock attempt that finds the flag Free (as the drop left it) succeeds.
DropReleasesOnce ==
    [][ /\ LiveGuards' >= LiveGuards - 1
        /\ (flag = "Held" /\ flag' = "Free") <=> (LiveGuards' = LiveGuards - 1)
        /\ \A t \in Threads :
             (pc[t] = "try_lock" /\ pc'[t] = "idle" /\ flag = "Free")
                => (ret'[t] = "Some" /\ guards'[t] = guards[t] + 1 /\ fails'[t] = 0)
      ]_vars

\* a try_lock succeeded on its single attempt after an earlier holder wrote and dropped
DropReleasesOnceWitness ==
    \E t \in Threads :
        /\ op[t] = "try_lock" /\ ret[t] = "Some" /\ guards[t] = 1 /\ fails[t] = 0
        /\ left # new_data

\* C4: hand-off: the first read through a freshly acquired Guard observes the
\* value the previous holder left at its drop (the initial value if none).
HandOffVisible ==
    \A t \in Threads : obs[t] \in Values \cup {Torn} => obs[t] = left

\* a holder read a value that a previous holder wrote and left
HandOffVisibleWitness ==
    \E t \in Threads : guards[t] = 1 /\ obs[t] = left /\ left # new_data

TryLockSingleAttempt ==
    [][ \A t \in Threads :
          (pc[t] = "try_lock" /\ (pc'[t] # pc[t] \/ fails'[t] # fails[t])) =>
             /\ pc'[t] = "idle"
             /\ flag = "Held" =>
                   /\ ret'[t] = "None" /\ fails'[t] = 1
                   /\ flag' = flag /\ data' = data /\ guards' = guards
             /\ flag = "Free" =>
                   /\ ret'[t] = "Some" /\ fails'[t] = 0
                   /\ flag' = "Held" /\ data' = data /\ guards'[t] = guards[t] + 1
      ]_vars

\* a try_lock on a lock somebody else holds has returned None after one attempt
TryLockSingleAttemptWitness ==
    \E t, u \in Threads :
        /\ t # u /\ guards[u] = 1 /\ guards[t] = 0
        /\ op[t] = "try_lock" /\ pc[t] = "idle" /\ ret[t] = "None" /\ fails[t] = 1

\* C7: spin_lock and spin_lock_warn return only with the Guard: the returning
\* step is the one that took the flag Free -> Held, and a failed attempt stays
\* in the loop without a token.
SpinReturnsOnlyOnSuccess ==
    [][ \A t \in Threads :
          /\ (InSpin(t) /\ pc'[t] # pc[t]) =>
                /\ pc'[t] = "idle" /\ ret'[t] = "Some"
                /\ flag = "Free" /\ flag' = "Held"
                /\ guards'[t] = guards[t] + 1
                /\ \A u \in Threads \ {t} : guards[u] = 0
          /\ (InSpin(t) /\ fails'[t] # fails[t]) =>
                /\ pc'[t] = pc[t] /\ ret'[t] = "-" /\ guards' = guards
                /\ flag = "Held" /\ flag' = "Held"
      ]_vars

\* a spin_lock has returned its Guard after at least one failed attempt
SpinReturnsOnlyOnSuccessWitness ==
    \E t \in Threads :
        /\ op[t] = "spin_lock" /\ pc[t] = "idle" /\ ret[t] = "Some"
        /\ fails[t] >= 1 /\ guards[t] = 1

\* C8: spin_lock_until returns None only at a clock reading past the deadline
\* (so at least deadline - start after the call), and on a lock that stays Held
\* it does eventually return None.
DeadlineRespected ==
    /\ [][ \A t \in Threads :
             (InUntil(t) /\ ret'[t] = "None") =>
                /\ pc[t] = "until_check"
                /\ clock > deadline[t]
                /\ clock - start[t] >= deadline[t] - start[t]
         ]_vars
    /\ \A t \in Threads :
         []((InUntil(t) /\ [](flag = "Held")) => <>(pc[t] = "idle" /\ ret[t] = "None"))

\* a spin_lock_until with a deadline after its call has timed out after failing
DeadlineRespectedWitness ==
    \E t \in Threads :
        /\ op[t] = "spin_lock_until" /\ pc[t] = "idle" /\ ret[t] = "None"
        /\ deadline[t] > start[t] /\ fails[t] >= 1 /\ flag = "Held"

\* C9: a spin_lock_until that returns None has never changed the flag: every
\* step of the call that does not return the Guard leaves flag, Guards and T alone.
TimeoutNoSideEffect ==
    [][ \A t \in Threads :
          (InUntil(t) /\ pc'[t] # pc[t] /\ ret'[t] # "Some") =>
             /\ flag' = flag /\ guards' = guards /\ data' = data
             /\ ~touched'[t]
      ]_vars

\* a timed-out spin_lock_until beside the thread that still holds the Guard
TimeoutNoSideEffectWitness ==
    \E t, u \in Threads :
        /\ t # u
        /\ op[t] = "spin_lock_until" /\ pc[t] = "idle" /\ ret[t] = "None"
        /\ fails[t] >= 1 /\ ~touched[t]
        /\ guards[u] = 1 /\ flag = "Held"

\* C10: under contention a spin_lock_warn call opens exactly one telemetry
\* interval, on its first failed attempt, however many attempts fail.
OneIntervalPerCall ==
    \A t \in Threads :
        op[t] = "spin_lock_warn" =>
            opened[t] = (IF fails[t] >= 1 THEN 1 ELSE 0)

\* C11: a spin_lock_warn whose first attempt succeeds opens no telemetry interval.
NoContentionNoInterval ==
    \A t \in Threads :
        (op[t] = "spin_lock_warn" /\ fails[t] = 0) => (opened[t] = 0 /\ closed[t] = 0)

\* a spin_lock_warn has returned its Guard without a failed attempt
NoContentionNoIntervalWitness ==
    \E t \in Threads :
        /\ op[t] = "spin_lock_warn" /\ pc[t] = "idle" /\ ret[t] = "Some"
        /\ fails[t] = 0 /\ opened[t] = 0 /\ guards[t] = 1

\* C12: every interval a spin_lock_warn call opened is closed, never more often
\* than opened, and none is open once the call has returned its Guard.
IntervalsClosed ==
    \A t \in Threads :
        op[t] = "spin_lock_warn" =>
            /\ closed[t] <= opened[t]
            /\ opened[t] - closed[t] <= 1
            /\ (ret[t] = "Some" => closed[t] = opened[t])

\* a spin_lock_warn has returned after MaxFails failed attempts, all intervals closed
IntervalsClosedWitness ==
    \E t \in Threads :
        /\ op[t] = "spin_lock_warn" /\ pc[t] = "idle" /\ ret[t] = "Some"
        /\ fails[t] = MaxFails /\ opened[t] >= 1 /\ closed[t] = opened[t]

\* C13: round trip: into_inner returns the contained value without acquiring:
\* the value Lock::new was given when no acquisition method was ever called
\* (in general the value the last Guard holder left), flag and Guards untouched.
RoundTrip ==
    [][ inner' # inner =>
          /\ inner = NoInner
          /\ inner' = left
          /\ ((\A t \in Threads : op[t] = "-") => inner' = new_data)
          /\ flag' = flag /\ flag = "Free"
          /\ guards' = guards /\ data' = data
      ]_vars

\* into_inner right after new returned new_data, for a value other than T's default
RoundTripWitness ==
    /\ inner = new_data
    /\ new_data # 0
    /\ \A t \in Threads : op[t] = "-"

\* C14: a thread that calls spin_lock or spin_lock_warn while it holds the
\* Guard stays in that call for ever, with the lock Held and its Guard kept:
\* once in this state, always in it (no return, no error value).
SelfDeadlocked(t) ==
    /\ InSpin(t) /\ guards[t] >= 1
    /\ flag = "Held" /\ ret[t] = "-"

ReentrantSelfDeadlock ==
    [][ \A t \in Threads :
          /\ (InSpin(t) /\ guards[t] >= 1) => SelfDeadlocked(t)
          /\ SelfDeadlocked(t) => (SelfDeadlocked(t)' /\ pc'[t] = pc[t])
      ]_vars

\* the holder of the Guard is inside spin_lock and has failed MaxFails times
ReentrantSelfDeadlockWitness ==
    \E t \in Threads :
        /\ pc[t] = "spin_lock" /\ guards[t] = 1 /\ fails[t] = MaxFails
        /\ \A u \in Threads \ {t} : guards[u] = 0

\* C15: every iteration of spin_lock_until starts with the deadline check, and
\* a check at a clock reading past the deadline returns None without an
\* attempt, whether the lock is Free or Held.
CheckPrecedesAttempt ==
    [][ \A t \in Threads :
          /\ (~InUntil(t) /\ InUntil(t)') => pc'[t] = "until_check"
          /\ (pc[t] = "until_lock" /\ InUntil(t)' /\ pc'[t] # pc[t]) => pc'[t] = "until_check"
          /\ (pc[t] = "until_check" /\ pc'[t] # pc[t] /\ clock > deadline[t]) =>
                /\ pc'[t] = "idle" /\ ret'[t] = "None"
                /\ flag' = flag /\ guards' = guards
                /\ fails'[t] = fails[t] /\ late'[t] = late[t]
      ]_vars

\* a call whose deadline had passed at call time returned None, without any
\* attempt, on a lock that is Free
CheckPrecedesAttemptWitness ==
    \E t \in Threads :
        /\ op[t] = "spin_lock_until" /\ pc[t] = "idle" /\ ret[t] = "None"
        /\ start[t] > deadline[t] /\ fails[t] = 0
        /\ flag = "Free" /\ LiveGuards = 0

\* C16: bounded overrun: a spin_lock_until call makes at most one acquisition
\* attempt at a clock reading past its deadline.
BoundedOverrun ==
    \A t \in Threads : op[t] = "spin_lock_until" => late[t] <= 1

\* a call made its one late attempt, which failed, and then returned None
BoundedOverrunWitness ==
    \E t \in Threads :
        /\ op[t] = "spin_lock_until" /\ pc[t] = "idle" /\ ret[t] = "None"
        /\ late[t] = 1

\* C17: no starvation freedom: a spin_lock caller t can be passed over for
\* ever.  In every reachable state of a round (t spinning without a Guard, the
\* others idle except the one named) the next step of the round can be taken
\* and leads to the next state of the round, with t still spinning:
\*   Passed: another thread u holds the Guard; t's attempts can only fail;
\*           u can drop its Guard                          -> Open
\*   Open:   the lock is Free; another thread w can call spin_lock, and if u
\*           just dropped, some w other than u can        -> Racing
\*   Racing: w is inside spin_lock; its attempt wins the lock -> Passed
\* so from any Passed state there is an endless run in which every Guard is
\* dropped, t keeps attempting and other threads keep winning.
Waiting(t) == pc[t] = "spin_lock" /\ guards[t] = 0 /\ ret[t] = "-"
Bystanders(t, u) ==
    \A x \in StarveThreads \ {t, u} : pc[x] = "idle" /\ guards[x] = 0
Passed(t, u) ==
    /\ Waiting(t) /\ flag = "Held"
    /\ pc[u] = "idle" /\ guards[u] = 1
    /\ Bystanders(t, u)
Open(t) ==
    /\ Waiting(t) /\ flag = "Free"
    /\ Bystanders(t, t)
Racing(t, w) ==
    /\ Waiting(t) /\ flag = "Free"
    /\ pc[w] = "spin_lock" /\ guards[w] = 0
    /\ Bystanders(t, w)

StarvationPossible ==
    \A t \in StarveThreads : \A u \in StarveThreads \ {t} :
        /\ Passed(t, u) =>
              /\ ENABLED (spin_lock(t) /\ Passed(t, u)')
              /\ ~ ENABLED (spin_lock(t) /\ ~Waiting(t)')
              /\ ENABLED (drop(u) /\ Open(t)')
              /\ \E w \in StarveThreads \ {t, u} :
                    ENABLED (drop(u) /\ (ENABLED (call_spin_lock(w) /\ Racing(t, w)'))')
        /\ Open(t) => ENABLED (call_spin_lock(u) /\ Racing(t, u)')
        /\ Racing(t, u) => ENABLED (spin_lock(u) /\ Passed(t, u)')

\* t has failed MaxFails attempts and is passed over: a thread that acquired
\* the lock after t began to fail holds the Guard
StarvationPossibleWitness ==
    \E t \in StarveThreads : \E u \in StarveThreads \ {t} :
        /\ Passed(t, u) /\ fails[t] = MaxFails
        /\ op[u] = "spin_lock" /\ ret[u] = "Some"
        /\ \E w \in StarveThreads \ {t, u} : op[w] = "spin_lock" /\ ret[w] = "Some"

\* C18: no leaked Held state: the flag is Held exactly when one Guard is live,
\* every Free -> Held step creates one Guard and every Held -> Free step ends
\* one, so releases never outnumber successful acquisitions.
NoLeakedHeld ==
    /\ [](flag = "Held" <=> LiveGuards = 1)
    /\ [](\A t \in Threads : guards[t] >= 0)
    /\ [][ /\ (flag = "Free" /\ flag' = "Held") <=> (LiveGuards' = LiveGuards + 1)
           /\ (flag = "Held" /\ flag' = "Free") <=> (LiveGuards' = LiveGuards - 1)
         ]_vars

\* the lock is Free again after a failed try_lock, a timeout and a dropped Guard
NoLeakedHeldWitness ==
    /\ flag = "Free" /\ LiveGuards = 0
    /\ left # new_data
    /\ \E t, u \in Threads :
         /\ t # u
         /\ op[t] = "try_lock" /\ ret[t] = "None"
         /\ op[u] = "spin_lock_until" /\ ret[u] = "None" /\ fails[u] >= 1

\* C19: lock-level progress: if every holder eventually drops its Guard, then
\* whenever a thread is inside spin_lock / spin_lock_warn the lock is eventually
\* acquired (found Free, then Held); and a spinning thread returns with its
\* Guard if from then on no other thread is inside an acquisition call.
HoldersDrop == [](flag = "Held" => <>(flag = "Free"))

SpinProgress ==
    /\ HoldersDrop =>
         []((\E t \in Threads : InSpin(t)) => <>(flag = "Free" /\ <>(flag = "Held")))
    /\ \A t \in Threads :
         HoldersDrop =>
            []((InSpin(t) /\ [](\A u \in Threads \ {t} : pc[u] \in {"idle", "writing"}))
                  => <>(pc[t] = "idle" /\ ret[t] = "Some" /\ guards[t] = 1))

\* a spin_lock that failed while another thread held the Guard has returned
\* its own Guard after that thread wrote and dropped
SpinProgressWitness ==
    \E t \in Threads :
        /\ op[t] = "spin_lock" /\ pc[t] = "idle" /\ ret[t] = "Some" /\ guards[t] = 1
        /\ fails[t] >= 1 /\ left # new_data
        /\ \A u \in Threads \ {t} : pc[u] = "idle" /\ guards[u] = 0

\* C20: the give-up test is strict: a check at a clock reading equal to the
\* deadline goes on to the attempt, and an attempt that finds the flag Free
\* returns the Guard.
StrictDeadline ==
    [][ \A t \in Threads :
          /\ (pc[t] = "until_check" /\ pc'[t] # pc[t] /\ clock = deadline[t]) =>
                (pc'[t] = "until_lock" /\ ret'[t] = "-")
          /\ (pc[t] = "until_lock" /\ pc'[t] # pc[t] /\ flag = "Free") =>
                /\ pc'[t] = "idle" /\ ret'[t] = "Some"
                /\ guards'[t] = guards[t] + 1 /\ flag' = "Held"
      ]_vars

\* a call with deadline = now has returned the Guard while the clock still reads the deadline
StrictDeadlineWitness ==
    \E t \in Threads :
        /\ op[t] = "spin_lock_until" /\ pc[t] = "idle" /\ ret[t] = "Some"
        /\ guards[t] = 1 /\ start[t] = deadline[t] /\ clock = deadline[t]

TypeOK ==
    /\ flag \in {"Free", "Held"}
    /\ data \in Values \cup {Torn}
====
